---- MODULE Spec2Model ----
(***************************************************************************)
(* Broadcast engine ("DJ mode") of the StreamFlow VPS backend server:      *)
(* one persistent Master ffmpeg pushing to RTMP, one Feeder ffmpeg per     *)
(* playlist entry piping into the Master, a config poller, manual skip,    *)
(* pointer correction on playlist change and a resume checkpoint file.     *)
(*                                                                         *)
(* The Node.js event loop is modelled as one atomic action per handler     *)
(* (poll continuation, HTTP request, timer callback, child-process event). *)
(* The environment (config store, file system, child processes, signals)   *)
(* is modelled by separate actions.                                        *)
(***************************************************************************)
EXTENDS Integers, Sequences, FiniteSets, Bags, TLC

\* ------------------------------------------------------------------------
\* Bounds of the model
\* ------------------------------------------------------------------------

\* child processes of each kind (Master, Feeder) that no handle variable
\* refers to any more and whose 'close' has not been handled
MaxLinger == 1
\* pending setTimeout(playNextVideo, ...) callbacks
MaxTimers == 2
\* consecutive failed poll cycles that the history counts
MaxStreak == 2
\* versions of the stream_config row the dashboard saves
MaxSaves == 3
\* poll cycles whose fetch is followed, and how many of them can wait for
\* their answer at the same time
MaxFetches == 4
MaxFlight == 2

\* ------------------------------------------------------------------------
\* Playlist entries and the resolver
\* ------------------------------------------------------------------------

\* a url field that is absent (falsy)
NoUrl == [present |-> FALSE, http |-> FALSE, malformed |-> FALSE, dir |-> "", name |-> ""]

\* a playlist item with only id and filename set
FileEntry(i, f) == [str |-> "", id |-> i, filename |-> f, url |-> NoUrl, path |-> ""]

A == FileEntry(1, "a.mp4")
B == FileEntry(2, "b.mp4")
C == FileEntry(3, "c.mp4")

\* the null file path
NoPath == <<>>

\* path.join(VIDEOS_DIR, name)
VideoPath(name) == <<"VIDEOS_DIR", name>>

\* a resolver that differs from the source's: the url is looked at before
\* the filename
getVideoPathUrlFirst(item) ==
  IF item.str # "" THEN <<"RAW", item.str>>
  ELSE IF item.url.present THEN
    IF item.url.http /\ item.url.malformed THEN NoPath
    ELSE IF item.url.dir = "videos" THEN VideoPath(item.url.name)
    ELSE IF item.url.dir = "root" THEN <<"PUBLIC", item.url.name>>
    ELSE <<"RAW", item.url.name>>
  ELSE IF item.filename # "" THEN VideoPath(item.filename)
  ELSE IF item.path # "" THEN <<"RAW", item.path>>
  ELSE NoPath

\* getVideoPath(item): the local file path of a playlist item, NoPath for null
getVideoPath(item) ==
  IF item.str # "" THEN <<"RAW", item.str>>
  ELSE IF item.filename # "" THEN VideoPath(item.filename)
  ELSE IF item.url.present THEN
    IF item.url.http /\ item.url.malformed THEN NoPath
    ELSE IF item.url.dir = "videos" THEN VideoPath(item.url.name)
    ELSE IF item.url.dir = "root" THEN <<"PUBLIC", item.url.name>>
    ELSE <<"RAW", item.url.name>>
  ELSE IF item.path # "" THEN <<"RAW", item.path>>
  ELSE NoPath

\* fs.existsSync(filePath) for a resolved path, against the files on disk
FileOk(item, disk) == getVideoPath(item) # NoPath /\ getVideoPath(item) \in disk

\* the loop of cleanPlaylist from item k on: an item whose file exists is
\* pushed to validPlaylist, any other item is counted in removedCount
RECURSIVE cleanFrom(_, _, _, _)
cleanFrom(playlist, disk, k, acc) ==
  IF k > Len(playlist) THEN acc
  ELSE cleanFrom(playlist, disk, k + 1,
                 IF FileOk(playlist[k], disk)
                 THEN [acc EXCEPT !.validPlaylist = Append(@, playlist[k])]
                 ELSE [acc EXCEPT !.removedCount = @ + 1])

\* a validation that differs from the source's: an item that resolves to no
\* path at all is kept, only items whose file is missing are removed
cleanPlaylistKeepsUnresolved(playlist, disk) ==
  LET validPlaylist ==
        SelectSeq(playlist, LAMBDA item : getVideoPath(item) = NoPath \/ FileOk(item, disk))
      removedCount == Len(playlist) - Len(validPlaylist)
  IN [validPlaylist |-> validPlaylist,
      hasChanges |-> removedCount > 0,
      removedCount |-> removedCount]

cleanPlaylist(playlist, disk) ==
  LET r == cleanFrom(playlist, disk, 1, [validPlaylist |-> <<>>, removedCount |-> 0])
  IN [validPlaylist |-> r.validPlaylist,
      hasChanges |-> r.removedCount > 0,
      removedCount |-> r.removedCount]

\* Array.prototype.findIndex, given for each element whether the predicate
\* holds of it: 0-based index of the first match, -1 if none
RECURSIVE findFrom(_, _)
findFrom(hits, k) ==
  IF k > Len(hits) THEN -1
  ELSE IF hits[k] THEN k - 1
  ELSE findFrom(hits, k + 1)

findIndex(hits) == findFrom(hits, 1)

\* seq[i] of a JS array: a one-element sequence, or <<>> for undefined
At(seq, i) == IF i >= 0 /\ i < Len(seq) THEN <<seq[i + 1]>> ELSE <<>>

\* ------------------------------------------------------------------------
\* Stream configuration (one row of stream_config)
\* ------------------------------------------------------------------------

Cfg(active, key, vol, pl) ==
  [is_active |-> active, rtmp_url |-> "rtmp://a", stream_key |-> key,
   bitrate |-> 8000, audio_overlay_enabled |-> TRUE, audio_volume |-> vol,
   audio_file |-> "rain.mp3", playlist |-> pl]

\* the files the video library starts with, and the overlay audio file
AllFiles == {VideoPath("a.mp4"), VideoPath("b.mp4"), VideoPath("c.mp4"),
             <<"AUDIO", "rain.mp3">>}

\* ------------------------------------------------------------------------
\* Child processes
\* ------------------------------------------------------------------------

\* A child process as the engine sees it: the ChildProcess object a handle
\* variable refers to. st is "running", "exited" (terminated, 'close' not
\* yet emitted) or "closed"; sig says a kill() has sent it SIGTERM; code is
\* the exit code, <<>> for null; att says its listeners still exist.
\* idx, video and args are what it was spawned for.
FeederProc(i, video, filePath) ==
  [kind |-> "feeder", st |-> "running", sig |-> FALSE, code |-> <<>>,
   att |-> TRUE, idx |-> i, video |-> <<video>>, args |-> <<filePath>>]

\* spawn('ffmpeg', masterArgs)
MasterProc(masterArgs) ==
  [kind |-> "master", st |-> "running", sig |-> FALSE, code |-> <<>>,
   att |-> TRUE, idx |-> 0, video |-> <<>>, args |-> <<masterArgs>>]

\* what a handle refers to once the child's 'close' has been handled
Closed(kind) ==
  [kind |-> kind, st |-> "closed", sig |-> FALSE, code |-> <<>>,
   att |-> TRUE, idx |-> 0, video |-> <<>>, args |-> <<>>]

\* exit code Node reports on 'close' after a failed spawn (negative errno)
SpawnErrCode == -2

\* a child that failed to spawn: 'close' will follow with the errno as code
Failed(proc) == [proc EXCEPT !.st = "exited", !.code = <<SpawnErrCode>>]

\* subprocess.kill() through a handle h: SIGTERM to a child still running
kill(h) ==
  IF h # <<>> /\ h[1].st = "running"
  THEN <<[h[1] EXCEPT !.sig = TRUE]>>
  ELSE h

\* Children no handle variable refers to any more, counted by what can
\* still happen to them
Strip(proc) == [kind |-> proc.kind, st |-> proc.st, sig |-> proc.sig,
                code |-> proc.code, att |-> proc.att]

\* no unreferenced child
NoOthers == EmptyBag

Count(others) == BagCardinality(others)

\* the unreferenced children of one kind
CountOf(others, kind) ==
  LET D == {c \in BagToSet(others) : c.kind = kind}
  IN BagCardinality([c \in D |-> others[c]])

\* the model follows at most MaxLinger unreferenced children of each kind
Within(others) ==
  CountOf(others, "master") <= MaxLinger /\ CountOf(others, "feeder") <= MaxLinger

\* the handle h is overwritten or set to null: its child lives on unreferenced
Release(others, h) ==
  IF h = <<>> \/ h[1].st = "closed" THEN others
  ELSE others (+) SetToBag({Strip(h[1])})

\* the unreferenced child c is gone
Forget(others, c) == others (-) SetToBag({c})

\* ------------------------------------------------------------------------
\* Engine handlers, as functions of the module-level state S
\* ------------------------------------------------------------------------

\* a save that differs from the source's: a failed write is not caught
saveStreamStateThrows(S, env, data) ==
  IF env.writeFails THEN [S EXCEPT !.thrown = TRUE] ELSE [S EXCEPT !.stateFile = <<data>>]

saveStreamState(S, env, data) ==
  IF env.writeFails THEN S ELSE [S EXCEPT !.stateFile = <<data>>]

loadStreamState(S, env) ==
  IF env.readFails THEN <<>> ELSE S.stateFile

\* a Feeder 'error' listener that differs from the source's: it also gives up
\* the stream
feederOnErrorStops(S) ==
  [S EXCEPT !.currentFeederProcess = kill(@),
            !.kills = Append(@, "feeder"),
            !.currentIndex = @ + 1,
            !.timers = @ + 1,
            !.isStreaming = FALSE]

\* Feeder 'error' listener
feederOnError(S) ==
  [S EXCEPT !.currentFeederProcess = kill(@),
            !.kills = Append(@, "feeder"),
            !.currentIndex = @ + 1,
            !.timers = @ + 1]

\* a sanity check that differs from the source's: an index beyond the
\* playlist is reduced modulo its length instead of being reset to 0
sanityCheckModulo(index, n) ==
  IF index < 0 THEN 0 ELSE index % n

\* a sanity check that differs from the source's: the index is clamped to
\* the last position instead of wrapping to the first
sanityCheckClampsToLast(index, n) ==
  IF index < 0 THEN 0 ELSE IF index >= n THEN n - 1 ELSE index

\* "Ensure index is valid (sanity check)"
sanityCheck(index, n) ==
  LET i1 == IF index < 0 THEN 0 ELSE index
  IN IF i1 >= n THEN 0 ELSE i1

\* a reaction to an empty playlist that differs from the source's: the
\* Feeder loop gives up instead of checking again later
emptyPlaylistGivesUp(S) == S

\* "Playlist empty. Waiting...": setTimeout(playNextVideo, 2000)
emptyPlaylistWait(S) == [S EXCEPT !.timers = @ + 1]

RECURSIVE playNextVideoFrom(_, _, _)
playNextVideoFrom(S, env, depth) ==
  IF ~S.isStreaming \/ S.masterStdin = <<>> THEN S
  ELSE IF Len(S.currentPlaylist) = 0 THEN emptyPlaylistWait(S)
  ELSE
    LET i2 == sanityCheck(S.currentIndex, Len(S.currentPlaylist))
        video == S.currentPlaylist[i2 + 1]
        filePath == getVideoPath(video)
    IN IF filePath = NoPath \/ filePath \notin env.disk
       THEN IF depth + 1 >= Len(S.currentPlaylist)
            \* no entry has a file: the recursion never ends (RangeError)
            THEN [S EXCEPT !.thrown = TRUE, !.currentIndex = env.overflowIndex]
            ELSE playNextVideoFrom([S EXCEPT !.currentIndex = i2 + 1], env, depth + 1)
       ELSE
         LET S1 == saveStreamState([S EXCEPT !.currentIndex = i2], env, video.id)
             feeder == FeederProc(i2, video, filePath)
             S2 == [S1 EXCEPT !.others = Release(@, S.currentFeederProcess),
                              !.currentFeederProcess = <<feeder>>,
                              !.spawned = <<feeder>>]
         IN IF env.feederSpawnFails
            \* the 'error' event is emitted on the next tick, before any
            \* other event is handled
            THEN feederOnError([S2 EXCEPT !.currentFeederProcess = <<Failed(feeder)>>,
                                          !.spawnFailed = TRUE])
            ELSE S2

playNextVideo(S, env) == playNextVideoFrom(S, env, 0)

\* (percent / 100).toFixed(2) for a whole percent: the decimal string
\* "whole.frac" with two fraction digits
toFixed2(percent) == [whole |-> percent \div 100, frac |-> percent % 100]

\* the argument set the Master is spawned with
MasterArgs(config, disk) ==
  LET audioEnabled == config.audio_overlay_enabled
      audioVolumeRaw == IF config.audio_volume = 0 THEN 35 ELSE config.audio_volume
      audioFile == IF config.audio_file = "" THEN "rain.mp3" ELSE config.audio_file
      audioInputPath ==
        IF <<"AUDIO", audioFile>> \in disk THEN <<"AUDIO", audioFile>>
        ELSE IF <<"PUBLIC", audioFile>> \in disk THEN <<"PUBLIC", audioFile>>
        ELSE NoPath
  IN [outputUrl |-> <<config.rtmp_url, config.stream_key>>,
      vBitrate |-> IF config.bitrate = 0 THEN 8000 ELSE config.bitrate,
      mix |-> IF audioEnabled /\ audioInputPath # NoPath
              THEN <<audioInputPath, toFixed2(audioVolumeRaw)>> ELSE <<>>]

\* a start check that differs from the source's: the stream key is not
\* looked at
missingEndpointUrlOnly(config) == config.rtmp_url = ""

\* "Missing RTMP URL or stream key"
missingEndpoint(config) == config.rtmp_url = "" \/ config.stream_key = ""

\* what startMasterStream prints before it spawns the Master: the RTMP URL,
\* the bitrate, the background audio, and 'Master Command: ffmpeg ' followed
\* by masterArgs.join(' '), whose last element is outputUrl
startLog(config, disk) ==
  LET masterArgs == MasterArgs(config, disk)
  IN <<[line |-> "RTMP URL", text |-> <<config.rtmp_url>>],
       [line |-> "Bitrate", text |-> <<masterArgs.vBitrate>>],
       [line |-> "Background Audio", text |-> masterArgs.mix],
       [line |-> "Master Command", text |-> <<masterArgs>>]>>

startMasterStream(S, env, config) ==
  IF S.masterFfmpeg # <<>> THEN S
  ELSE IF missingEndpoint(config) THEN S
  ELSE \* the module variables once the Master is spawned, with which
       \* playNextVideo is then called
       LET started ==
             {[S EXCEPT !.masterFfmpeg = <<MasterProc(MasterArgs(config, env.disk))>>,
                        !.log = startLog(config, env.disk),
                        !.masterSpawned = TRUE,
                        !.masterStdin = <<"stdin">>,
                        !.isStreaming = TRUE,
                        \* a Master 'error' event has no listener
                        !.fatal = env.masterSpawnFails]}
       IN CHOOSE T \in {playNextVideo(S1, env) : S1 \in started} : TRUE

\* a stop that differs from the source's: it kills the Master before the
\* Feeder
stopStreamMasterFirst(S) ==
  LET S1 == IF S.masterFfmpeg # <<>>
            THEN [S EXCEPT !.others = Release(@, kill(S.masterFfmpeg)),
                           !.kills = Append(@, "master"),
                           !.masterFfmpeg = <<>>,
                           !.masterStdin = <<>>]
            ELSE S
      S2 == IF S1.currentFeederProcess # <<>>
            THEN [S1 EXCEPT !.others = Release(@, kill(S1.currentFeederProcess)),
                            !.kills = Append(@, "feeder"),
                            !.currentFeederProcess = <<>>]
            ELSE S1
  IN [S2 EXCEPT !.isStreaming = FALSE]

stopStream(S) ==
  LET S1 == IF S.currentFeederProcess # <<>>
            THEN [S EXCEPT !.others = Release(@, kill(S.currentFeederProcess)),
                           !.kills = Append(@, "feeder"),
                           !.currentFeederProcess = <<>>]
            ELSE S
      S2 == IF S1.masterFfmpeg # <<>>
            THEN [S1 EXCEPT !.others = Release(@, kill(S1.masterFfmpeg)),
                            !.kills = Append(@, "master"),
                            !.masterFfmpeg = <<>>,
                            !.masterStdin = <<>>]
            ELSE S1
  IN [S2 EXCEPT !.isStreaming = FALSE]

\* pointer correction predicate of the playlist-change branch
SameVideo(v, oldVideo) ==
  \/ (v.id # 0 /\ v.id = oldVideo.id)
  \/ (v.filename # "" /\ v.filename = oldVideo.filename)

\* a pointer correction that differs from the source's: the old entry is not
\* looked up in the new playlist
pointerCorrectionWithoutLookup(index, oldVideo, playlist) ==
  IF oldVideo = <<>> THEN index
  ELSE IF index >= Len(playlist) THEN 0
  ELSE index

\* POINTER CORRECTION: the index after the playlist was replaced
pointerCorrection(index, oldVideo, playlist) ==
  IF oldVideo = <<>> THEN index
  ELSE LET newIndex == findIndex([k \in 1..Len(playlist) |-> SameVideo(playlist[k], oldVideo[1])])
       IN IF newIndex # -1 THEN newIndex
          ELSE IF index >= Len(playlist) THEN 0
          ELSE index

\* a playlist update that differs from the source's: the Feeder is killed so
\* that the new playlist takes effect at once
hotReloadKillsFeeder(S, env, config) ==
  LET oldVideo == At(S.currentPlaylist, S.currentIndex)
      validPlaylist == cleanPlaylist(config.playlist, env.disk).validPlaylist
  IN [S EXCEPT !.currentPlaylist = validPlaylist,
               !.currentIndex = pointerCorrection(S.currentIndex, oldVideo, validPlaylist),
               !.currentFeederProcess = kill(@),
               !.lastConfig = <<config>>,
               !.branch = "reload"]

\* "Playlist updated!": the playlist snapshot is replaced while streaming
hotReload(S, env, config) ==
  LET oldVideo == At(S.currentPlaylist, S.currentIndex)
      validPlaylist == cleanPlaylist(config.playlist, env.disk).validPlaylist
  IN [S EXCEPT !.currentPlaylist = validPlaylist,
               !.currentIndex = pointerCorrection(S.currentIndex, oldVideo, validPlaylist),
               !.lastConfig = <<config>>,
               !.branch = "reload"]

\* a reaction to a critical change that differs from the source's: the
\* Master is started again in the poll cycle that stopped it
onCriticalChangeRestarts(S, env, config) ==
  [startMasterStream(stopStream(S), env, config) EXCEPT !.branch = "critical"]

\* "Critical Configuration Changed": stopStream(), then return; the next
\* poll cycle starts the stream afresh
onCriticalChange(S, env, config) ==
  [stopStream(S) EXCEPT !.branch = "critical"]

\* section 2 of pollStreamConfig: runtime updates while streaming
runtimeUpdates(S, env, config) ==
  IF ~(S.isStreaming /\ config.is_active) THEN S
  \* lastConfig is null: the property read throws, caught by the poll's catch
  ELSE IF S.lastConfig = <<>> THEN S
  ELSE
    LET last == S.lastConfig[1]
        criticalChanged ==
          \/ config.stream_key # last.stream_key
          \/ config.rtmp_url # last.rtmp_url
          \/ config.audio_overlay_enabled # last.audio_overlay_enabled
          \/ config.audio_volume # last.audio_volume
          \/ config.audio_file # last.audio_file
    IN IF criticalChanged THEN onCriticalChange(S, env, config)
       ELSE IF last.playlist # config.playlist THEN hotReload(S, env, config)
       ELSE S

\* a resume that differs from the source's: it starts at the recorded entry
\* itself
resumeAtRecorded(playlist, savedState) ==
  IF savedState # <<>> /\ savedState[1] # 0
  THEN LET foundIndex == findIndex([k \in 1..Len(playlist) |-> playlist[k].id = savedState[1]])
       IN IF foundIndex # -1 THEN foundIndex ELSE 0
  ELSE 0

\* index the smart restart resumes from
resumeIndex(playlist, savedState) ==
  IF savedState # <<>> /\ savedState[1] # 0
  THEN LET foundIndex == findIndex([k \in 1..Len(playlist) |-> playlist[k].id = savedState[1]])
       IN IF foundIndex # -1 THEN (foundIndex + 1) % Len(playlist) ELSE 0
  ELSE 0

\* a reaction to a failed fetch that differs from the source's: the failure
\* is taken for "the config says stop"
onFetchFailedStops(S) == stopStream(S)

\* getStreamConfig returned null: the cycle is skipped
onFetchFailed(S) == S

\* the continuation of pollStreamConfig after the fetch; got is <<>> when
\* getStreamConfig returned null
pollStreamConfig(S, env, got) ==
  IF got = <<>> THEN onFetchFailed(S)
  ELSE
    LET fetched == got[1] IN
    IF fetched.is_active /\ ~S.isStreaming THEN
      LET cleaned == cleanPlaylist(fetched.playlist, env.disk)
          config == IF cleaned.hasChanges
                    THEN [fetched EXCEPT !.playlist = cleaned.validPlaylist]
                    ELSE fetched
          S1 == [S EXCEPT !.currentPlaylist = config.playlist,
                          !.currentIndex = resumeIndex(config.playlist, loadStreamState(S, env)),
                          !.branch = "start"]
          S2 == startMasterStream(S1, env, config)
      IN IF S2.thrown THEN S2
         ELSE runtimeUpdates([S2 EXCEPT !.lastConfig = <<config>>], env, config)
    ELSE IF ~fetched.is_active /\ S.isStreaming
      THEN [stopStream(S) EXCEPT !.branch = "stop"]
    ELSE runtimeUpdates(S, env, fetched)

\* a skip target that differs from the source's: 'previous' does not wrap
skipTargetWithoutWrap(index, n, direction) ==
  IF direction = "next"
  THEN (IF index + 1 >= n THEN 0 ELSE index + 1)
  ELSE index - 1

\* index a manual skip moves to
skipTarget(index, n, direction) ==
  IF direction = "next"
  THEN (IF index + 1 >= n THEN 0 ELSE index + 1)
  ELSE (IF index - 1 < 0 THEN n - 1 ELSE index - 1)

\* a skip route that differs from the source's: it does not ask whether the
\* engine is streaming
controlSkipWhileIdle(S, direction) ==
  IF direction # "next" /\ direction # "previous" THEN S
  ELSE [S EXCEPT !.currentIndex = skipTarget(@, Len(S.currentPlaylist), direction),
                 !.skipToTarget = TRUE,
                 !.currentFeederProcess = kill(@),
                 !.kills = IF S.currentFeederProcess # <<>> THEN Append(@, "feeder") ELSE @,
                 !.branch = "skip"]

\* POST /control/skip
controlSkip(S, direction) ==
  IF ~S.isStreaming THEN S
  ELSE IF direction # "next" /\ direction # "previous" THEN S
  ELSE [S EXCEPT !.currentIndex = skipTarget(@, Len(S.currentPlaylist), direction),
                 !.skipToTarget = TRUE,
                 !.currentFeederProcess = kill(@),
                 !.kills = IF S.currentFeederProcess # <<>> THEN Append(@, "feeder") ELSE @,
                 !.branch = "skip"]

\* a 'close' listener that differs from the source's: a code-0 exit replays
\* the position the index points at
feederOnCloseWithoutAdvance(S, env, code) ==
  IF S.skipToTarget THEN playNextVideo([S EXCEPT !.skipToTarget = FALSE], env)
  ELSE IF code = <<0>> THEN playNextVideo(S, env)
  ELSE IF code # <<>> THEN [S EXCEPT !.currentIndex = @ + 1, !.timers = @ + 1]
  ELSE S

\* Feeder 'close' listener; code is <<>> for null
feederOnClose(S, env, code) ==
  IF S.skipToTarget THEN playNextVideo([S EXCEPT !.skipToTarget = FALSE], env)
  ELSE IF code = <<0>> THEN playNextVideo([S EXCEPT !.currentIndex = @ + 1], env)
  ELSE IF code # <<>> THEN [S EXCEPT !.currentIndex = @ + 1, !.timers = @ + 1]
  ELSE S

\* a Master 'close' listener that differs from the source's: it leaves the
\* Feeder and its handle alone
masterOnCloseKeepsFeeder(S) ==
  [S EXCEPT !.others = Release(@, S.masterFfmpeg),
            !.masterFfmpeg = <<>>,
            !.masterStdin = <<>>,
            !.isStreaming = FALSE]

\* a Master 'close' listener that differs from the source's: it leaves
\* isStreaming set
masterOnCloseKeepsFlag(S) ==
  LET S1 == [S EXCEPT !.others = Release(@, S.masterFfmpeg),
                      !.masterFfmpeg = <<>>,
                      !.masterStdin = <<>>]
  IN IF S1.currentFeederProcess # <<>>
     THEN [S1 EXCEPT !.others = Release(@, kill(S1.currentFeederProcess)),
                     !.kills = Append(@, "feeder"),
                     !.currentFeederProcess = <<>>]
     ELSE S1

\* Master 'close' listener
masterOnClose(S) ==
  LET S1 == [S EXCEPT !.others = Release(@, S.masterFfmpeg),
                      !.masterFfmpeg = <<>>,
                      !.masterStdin = <<>>,
                      !.isStreaming = FALSE]
  IN IF S1.currentFeederProcess # <<>>
     THEN [S1 EXCEPT !.others = Release(@, kill(S1.currentFeederProcess)),
                     !.kills = Append(@, "feeder"),
                     !.currentFeederProcess = <<>>]
     ELSE S1

\* GET /now-playing: the body of the response
nowPlaying(S) ==
  IF ~S.isStreaming \/ Len(S.currentPlaylist) = 0
  THEN [current |-> <<>>, next |-> <<>>, index |-> 0, total |-> 0, isStreaming |-> FALSE]
  ELSE LET nextIndex == (S.currentIndex + 1) % Len(S.currentPlaylist)
       IN [current |-> At(S.currentPlaylist, S.currentIndex),
           next |-> At(S.currentPlaylist, nextIndex),
           index |-> S.currentIndex,
           total |-> Len(S.currentPlaylist),
           isStreaming |-> TRUE]

\* ------------------------------------------------------------------------
\* State
\* ------------------------------------------------------------------------

VARIABLES
  files,                 \* paths that exist on disk
  fetches,               \* the stream_config row and the fetches in flight
  stateFile,             \* stream_state.json: <<lastPlayedVideoId>> or <<>>
  masterFfmpeg, masterStdin, currentFeederProcess,
  isStreaming, lastConfig,
  currentPlaylist, currentIndex, skipToTarget,
  others,                \* bag of children no handle refers to any more
  timers,                \* pending setTimeout(playNextVideo) callbacks
  phase,                 \* "up", or "crashed" after an uncaught exception
  ev,                    \* history: what the last handler did
  run                    \* history: natural advances since the last disturbance

envVars == <<files, fetches>>
engineVars == <<stateFile, masterFfmpeg, masterStdin, currentFeederProcess,
                isStreaming, lastConfig, currentPlaylist, currentIndex,
                skipToTarget, others, timers>>
vars == <<files, fetches, stateFile, masterFfmpeg, masterStdin,
          currentFeederProcess, isStreaming, lastConfig, currentPlaylist,
          currentIndex, skipToTarget, others, timers, phase, ev, run>>

\* the module-level variables as one record, with the notes a handler leaves
Engine ==
  [stateFile |-> stateFile, masterFfmpeg |-> masterFfmpeg, masterStdin |-> masterStdin,
   currentFeederProcess |-> currentFeederProcess, isStreaming |-> isStreaming,
   lastConfig |-> lastConfig, currentPlaylist |-> currentPlaylist,
   currentIndex |-> currentIndex, skipToTarget |-> skipToTarget,
   others |-> others, timers |-> timers,
   thrown |-> FALSE, fatal |-> FALSE, branch |-> "none",
   spawned |-> <<>>, spawnFailed |-> FALSE,
   masterSpawned |-> FALSE, kills |-> <<>>, log |-> <<>>]

\* the handler's result becomes the next state
Commit(T) ==
  /\ Within(T.others)
  /\ T.timers <= MaxTimers
  /\ stateFile' = T.stateFile
  /\ masterFfmpeg' = T.masterFfmpeg
  /\ masterStdin' = T.masterStdin
  /\ currentFeederProcess' = T.currentFeederProcess
  /\ isStreaming' = T.isStreaming
  /\ lastConfig' = T.lastConfig
  /\ currentPlaylist' = T.currentPlaylist
  /\ currentIndex' = T.currentIndex
  /\ skipToTarget' = T.skipToTarget
  /\ others' = T.others
  /\ timers' = T.timers

\* the values of the module-level variables, without the notes
Core(S) ==
  <<S.stateFile, S.masterFfmpeg, S.masterStdin, S.currentFeederProcess,
    S.isStreaming, S.lastConfig, S.currentPlaylist, S.currentIndex,
    S.skipToTarget, S.others, S.timers>>

NoRun == [start |-> 0, n |-> 0, full |-> FALSE]

\* no fetch has been sent yet; the row is in its first version, version 0
\* standing for "nothing applied yet" in applied
NoFetches == [saved |-> 1, sent |-> 0, flight |-> {}, applied |-> 0]

Init ==
  /\ files = AllFiles
  /\ fetches = NoFetches
  /\ stateFile = <<>>
  /\ masterFfmpeg = <<>>
  /\ masterStdin = <<>>
  /\ currentFeederProcess = <<>>
  /\ isStreaming = FALSE
  /\ lastConfig = <<>>
  /\ currentPlaylist = <<>>
  /\ currentIndex = 0
  /\ skipToTarget = FALSE
  /\ others = NoOthers
  /\ timers = 0
  /\ phase = "up"
  /\ ev = [op |-> "init", env |-> FALSE]
  /\ run = NoRun

\* ------------------------------------------------------------------------
\* History records
\* ------------------------------------------------------------------------

\* the current Feeder is running and has not been sent a signal
Live(h) == h # <<>> /\ h[1].st = "running" /\ ~h[1].sig

\* position of the Feeder a handler spawned, <<>> when it spawned none
SpawnIdx(T) == IF T.spawned = <<>> THEN <<>> ELSE <<T.spawned[1].idx>>

AllFilesExist(playlist, disk) ==
  \A k \in 1..Len(playlist) : FileOk(playlist[k], disk)

\* the handler before this one, as far as later handlers are judged by it
Prev == IF ev.op = "poll" THEN <<ev.op, ev.branch>> ELSE <<ev.op, "">>

\* what a poll cycle observes, judged from the fetched config alone: the
\* stream switched "on" or "off", a "critical" change (the Master would be
\* built with other arguments than the running one has), a change of the
\* "playlist" only, or nothing of these
Observed(S, got) ==
  IF got = <<>> THEN "nothing"
  ELSE IF ~S.isStreaming THEN (IF got[1].is_active THEN "on" ELSE "idle")
  ELSE IF ~got[1].is_active THEN "off"
  ELSE IF S.masterFfmpeg = <<>> \/ S.lastConfig = <<>> THEN "unknown"
  ELSE IF <<MasterArgs(got[1], files)>> # S.masterFfmpeg[1].args THEN "critical"
  ELSE IF got[1].playlist # S.lastConfig[1].playlist THEN "playlist"
  ELSE "same"

PollEv(S, T, got) ==
  [op |-> "poll", env |-> FALSE, fetched |-> got # <<>>, branch |-> T.branch,
   seen |-> Observed(S, got), kills |-> T.kills, master |-> T.masterSpawned,
   log |-> T.log,
   streak |-> IF got # <<>> \/ ~S.isStreaming THEN 0
              ELSE IF ev.op = "poll" /\ ~ev.fetched
                   THEN (IF ev.streak < MaxStreak THEN ev.streak + 1 ELSE ev.streak)
              ELSE 1,
   prev |-> IF T.branch = "start" THEN Prev ELSE <<>>,
   spawn |-> SpawnIdx(T)]

SkipEv(S, T, direction) ==
  [op |-> "skip", env |-> FALSE, dir |-> direction,
   ok |-> T.branch = "skip",
   from |-> S.currentIndex, n |-> Len(S.currentPlaylist),
   playing |-> Live(S.currentFeederProcess)
               /\ At(S.currentPlaylist, S.currentIndex) = S.currentFeederProcess[1].video]

CloseEv(S, T, proc, isCurrent, env) ==
  [op |-> "feederClose", env |-> FALSE, code |-> proc.code, current |-> isCurrent,
   sig |-> proc.sig,
   natural |-> /\ proc.code = <<0>> /\ isCurrent /\ ~S.skipToTarget
               /\ S.isStreaming /\ S.masterStdin # <<>>
               /\ Len(S.currentPlaylist) >= 1
               /\ AllFilesExist(S.currentPlaylist, env.disk),
   inPlace |-> /\ isCurrent
               /\ proc.idx = S.currentIndex
               /\ proc.video = At(S.currentPlaylist, S.currentIndex),
   skip |-> IF ev.op = "skip" /\ ev.ok
            THEN <<[dir |-> ev.dir, from |-> ev.from, n |-> ev.n, playing |-> ev.playing]>>
            ELSE <<>>,
   spawn |-> SpawnIdx(T)]

\* natural advances since the engine state was last changed by anything else
RunAfter(S, T, e) ==
  IF e.op = "feederClose" /\ e.natural /\ e.inPlace
  THEN [start |-> run.start, n |-> (run.n + 1) % Len(S.currentPlaylist),
        full |-> run.full \/ run.n + 1 = Len(S.currentPlaylist)]
  ELSE IF Core(T) = Core(S) THEN run
  ELSE [start |-> T.currentIndex, n |-> 0, full |-> FALSE]

\* ------------------------------------------------------------------------
\* Actions: the environment
\* ------------------------------------------------------------------------

\* the outcomes of an operation that can fail, given the faults F in play
Outcome(F, fault) == IF fault \in F THEN BOOLEAN ELSE {FALSE}

Env(wf, rf, sf, msf, ov) ==
  [disk |-> files, writeFails |-> wf, readFails |-> rf,
   feederSpawnFails |-> sf, masterSpawnFails |-> msf, overflowIndex |-> ov]

EnvEv == [ev EXCEPT !.env = TRUE]

\* a video file is deleted from the videos directory
DeleteFile(FS) ==
  /\ \E f \in FS \cap files : files' = files \ {f}
  /\ ev' = EnvEv
  /\ UNCHANGED <<fetches, engineVars, phase, run>>

\* the exit codes a child can terminate with. A Feeder that was sent SIGTERM
\* is ended by the signal (code null) or handles it and exits with a
\* non-zero code, as ffmpeg does; the code of a Master is never read.
CodesOf(proc, Codes) ==
  IF proc.kind = "master" THEN (IF proc.sig THEN {<<>>} ELSE {<<1>>})
  ELSE IF proc.sig THEN {<<>>} \cup (Codes \ {<<0>>})
  ELSE Codes

\* the current Feeder terminates
FeederExit(Codes) ==
  /\ currentFeederProcess # <<>>
  /\ currentFeederProcess[1].st = "running"
  /\ \E c \in CodesOf(currentFeederProcess[1], Codes) :
       currentFeederProcess' = <<[currentFeederProcess[1] EXCEPT !.st = "exited", !.code = c]>>
  /\ ev' = EnvEv
  /\ UNCHANGED <<envVars, stateFile, masterFfmpeg, masterStdin, isStreaming,
                 lastConfig, currentPlaylist, currentIndex, skipToTarget,
                 others, timers, phase, run>>

\* the current Master terminates
MasterExit ==
  /\ masterFfmpeg # <<>>
  /\ masterFfmpeg[1].st = "running"
  /\ \E c \in CodesOf(masterFfmpeg[1], {}) :
       masterFfmpeg' = <<[masterFfmpeg[1] EXCEPT !.st = "exited", !.code = c]>>
  /\ ev' = EnvEv
  /\ UNCHANGED <<envVars, stateFile, currentFeederProcess, masterStdin, isStreaming,
                 lastConfig, currentPlaylist, currentIndex, skipToTarget,
                 others, timers, phase, run>>

\* ------------------------------------------------------------------------
\* Actions: the handlers of the engine
\* ------------------------------------------------------------------------

\* one poll cycle: the fetch and the continuation that applies its result.
\* The fetch result is the row as it is now, or null when the fetch fails.
Poll(F, Fetched) ==
  /\ phase = "up"
  /\ \E got \in Fetched :
     \E wf \in Outcome(F, "write"), rf \in Outcome(F, "read"),
        sf \in Outcome(F, "feederSpawn"), msf \in Outcome(F, "masterSpawn") :
     \E ov \in 0..(IF got = <<>> THEN 0 ELSE Len(got[1].playlist)) :
     \E T \in {pollStreamConfig(Engine, Env(wf, rf, sf, msf, ov), got)} :
     \E e \in {PollEv(Engine, T, got)} :
       /\ Commit(T)
       /\ phase' = IF T.fatal THEN "crashed" ELSE "up"
       /\ ev' = e
       /\ run' = RunAfter(Engine, T, e)
  /\ UNCHANGED envVars

\* the row of stream_config in its version v: the dashboard switches the
\* stream of [A, B] on (odd versions) and off (even versions)
RowOf(v) == Cfg(v % 2 = 1, "k1", 35, <<A, B>>)

\* the dashboard saves the next version of the row
Save ==
  /\ fetches.saved < MaxSaves
  /\ fetches' = [fetches EXCEPT !.saved = @ + 1]
  /\ ev' = EnvEv
  /\ UNCHANGED <<files, engineVars, phase, run>>

\* the interval timer starts a poll cycle: pollStreamConfig calls
\* getStreamConfig and awaits it, whether or not an earlier cycle is still
\* waiting for its answer; the answer will carry the row as it is now
FetchSend ==
  /\ phase = "up"
  /\ fetches.sent < MaxFetches
  /\ Cardinality(fetches.flight) < MaxFlight
  /\ fetches' = [fetches EXCEPT !.sent = @ + 1,
                                 !.flight = @ \cup {[seq |-> fetches.sent + 1,
                                                     ver |-> fetches.saved]}]
  /\ ev' = EnvEv
  /\ UNCHANGED <<files, engineVars, phase, run>>

\* the answer to one of the fetches in flight arrives, in whatever order the
\* network delivers them, and the awaiting cycle continues with it
FetchReturn ==
  /\ phase = "up"
  /\ \E r \in fetches.flight :
     \E got \in {<<RowOf(r.ver)>>} :
     \E T \in {pollStreamConfig(Engine, Env(FALSE, FALSE, FALSE, FALSE, 0), got)} :
     \E e \in {PollEv(Engine, T, got)} :
       /\ Commit(T)
       /\ fetches' = [fetches EXCEPT !.flight = @ \ {r}, !.applied = r.ver]
       /\ ev' = e
       /\ run' = RunAfter(Engine, T, e)
  /\ UNCHANGED <<files, phase>>

\* the fetch returns the row, which holds whatever the dashboard last saved
PollOk(F, CS) == Poll(F, {<<c>> : c \in CS})

\* the fetch fails: getStreamConfig returns null
PollFail == Poll({}, {<<>>})

Skip(Directions) ==
  /\ phase = "up"
  /\ \E direction \in Directions :
       LET T == controlSkip(Engine, direction)
       IN /\ Commit(T)
          /\ ev' = SkipEv(Engine, T, direction)
          /\ run' = RunAfter(Engine, T, ev')
  /\ UNCHANGED <<envVars, phase>>

TimerFire(F) ==
  /\ phase = "up"
  /\ timers > 0
  /\ \E wf \in Outcome(F, "write"), sf \in Outcome(F, "feederSpawn") :
     \E T \in {playNextVideo([Engine EXCEPT !.timers = @ - 1],
                              Env(wf, FALSE, sf, FALSE, 0))} :
     \E e \in {[op |-> "timer", env |-> FALSE, spawn |-> SpawnIdx(T)]} :
       /\ Commit(T)
       /\ phase' = IF T.thrown \/ T.fatal THEN "crashed" ELSE "up"
       /\ ev' = e
       /\ run' = RunAfter(Engine, T, e)
  /\ UNCHANGED envVars

\* 'close' of the child the handle currentFeederProcess refers to
FeederClose(F) ==
  /\ phase = "up"
  /\ currentFeederProcess # <<>>
  /\ currentFeederProcess[1].st = "exited"
  /\ \E wf \in Outcome(F, "write"), sf \in Outcome(F, "feederSpawn") :
     \E env \in {Env(wf, FALSE, sf, FALSE, 0)}, proc \in {currentFeederProcess[1]} :
     \E T \in {feederOnClose([Engine EXCEPT !.currentFeederProcess = <<Closed("feeder")>>],
                              env, proc.code)} :
     \E e \in {CloseEv(Engine, T, proc, TRUE, env)} :
       /\ Commit(T)
       /\ phase' = IF T.thrown \/ T.fatal THEN "crashed" ELSE "up"
       /\ ev' = e
       /\ run' = RunAfter(Engine, T, e)
  /\ UNCHANGED envVars

\* an unreferenced Feeder terminates and its 'close' is handled
OtherFeederClose(F, Codes) ==
  /\ phase = "up"
  /\ \E c \in BagToSet(others) :
       /\ c.att /\ c.kind = "feeder"
       /\ \E code \in (IF c.st = "exited" THEN {c.code} ELSE CodesOf(c, Codes)) :
          \E wf \in Outcome(F, "write"), sf \in Outcome(F, "feederSpawn") :
            LET env == Env(wf, FALSE, sf, FALSE, 0)
                S0 == [Engine EXCEPT !.others = Forget(@, c)]
                T == feederOnClose(S0, env, code)
            IN /\ Commit(T)
               /\ phase' = IF T.thrown \/ T.fatal THEN "crashed" ELSE "up"
               /\ ev' = CloseEv(Engine, T, [c EXCEPT !.code = code], FALSE, env)
               /\ run' = RunAfter(Engine, T, ev')
  /\ UNCHANGED envVars

\* 'close' of the child the handle masterFfmpeg refers to
MasterClose ==
  /\ phase = "up"
  /\ masterFfmpeg # <<>>
  /\ masterFfmpeg[1].st = "exited"
  /\ LET S0 == [Engine EXCEPT !.masterFfmpeg = <<Closed("master")>>]
         T == masterOnClose(S0)
     IN /\ Commit(T)
        /\ ev' = [op |-> "masterClose", env |-> FALSE, current |-> TRUE,
                  feeder |-> Live(currentFeederProcess), kills |-> T.kills]
        /\ run' = RunAfter(Engine, T, ev')
  /\ UNCHANGED <<envVars, phase>>

\* an unreferenced Master terminates and its 'close' is handled
OtherMasterClose ==
  /\ phase = "up"
  /\ \E c \in BagToSet(others) :
       /\ c.att /\ c.kind = "master"
       /\ LET S0 == [Engine EXCEPT !.others = Forget(@, c)]
              T == masterOnClose(S0)
          IN /\ Commit(T)
             /\ ev' = [op |-> "masterClose", env |-> FALSE, current |-> FALSE]
             /\ run' = RunAfter(Engine, T, ev')
  /\ UNCHANGED <<envVars, phase>>

\* what becomes of the children when the server process ends: those still
\* running live on, and nobody listens to any of them
RECURSIVE DetachAll(_, _)
DetachAll(bag, D) ==
  IF D = {} THEN EmptyBag
  ELSE LET c == CHOOSE x \in D : TRUE
           rest == DetachAll(bag, D \ {c})
       IN IF c.st # "running" THEN rest
          ELSE rest (+) [x \in {[c EXCEPT !.att = FALSE]} |-> bag[c]]

Detach(S) ==
  LET all == Release(Release(S.others, S.masterFfmpeg), S.currentFeederProcess)
  IN DetachAll(all, BagToSet(all))

\* SIGINT/SIGTERM: stopStream(), process.exit(0); the server is then started
\* again with fresh module-level variables. The children of the old process
\* are no longer listened to and nothing they do reaches the new process:
\* the history records which of them were left running.
Restart ==
  /\ phase = "up"
  /\ others' = NoOthers
  /\ masterFfmpeg' = <<>>
  /\ masterStdin' = <<>>
  /\ currentFeederProcess' = <<>>
  /\ isStreaming' = FALSE
  /\ lastConfig' = <<>>
  /\ currentPlaylist' = <<>>
  /\ currentIndex' = 0
  /\ skipToTarget' = FALSE
  /\ timers' = 0
  /\ ev' = [op |-> "restart", env |-> FALSE, left |-> Detach(stopStream(Engine))]
  /\ run' = NoRun
  /\ fetches' = [fetches EXCEPT !.flight = {}]
  /\ UNCHANGED <<files, stateFile, phase>>

\* ------------------------------------------------------------------------
\* Specifications
\* ------------------------------------------------------------------------

ExitCodes == {<<0>>, <<1>>}

\* Lifecycle: the dashboard switches the stream on and off, changes a
\* critical field (the audio volume) and swaps between two playlists; the
\* Master crashes; the server is restarted. Feeders end their file or are
\* ended by a signal; they do not fail.
LifeConfigs ==
  {Cfg(TRUE, "k1", v, pl) : v \in {35, 50}, pl \in {<<A, B>>, <<B>>}}
    \cup {Cfg(FALSE, "k1", 35, <<A, B>>)}

NaturalCodes == {<<0>>}

Next ==
  \/ PollOk({}, LifeConfigs)
  \/ FeederExit(NaturalCodes)
  \/ MasterExit
  \/ FeederClose({})
  \/ OtherFeederClose({}, NaturalCodes)
  \/ MasterClose
  \/ OtherMasterClose
  \/ Restart

Spec == Init /\ [][Next]_vars

\* Playlist: the stream stays on while the dashboard edits the playlist.
\* No Master is stopped here, so none is left unreferenced.
Playlists == {<<A, B, C>>, <<A, C>>, <<A>>, <<>>}

ListConfigs == {Cfg(TRUE, "k1", 35, pl) : pl \in Playlists}

NextList ==
  \/ PollOk({}, ListConfigs)
  \/ FeederExit(ExitCodes)
  \/ MasterExit
  \/ TimerFire({})
  \/ FeederClose({})
  \/ OtherFeederClose({}, ExitCodes)
  \/ MasterClose

SpecList == Init /\ [][NextList]_vars

\* Skip: the operator skips forwards and backwards while the dashboard
\* swaps between playlists of three and two entries
SkipConfigs == {Cfg(TRUE, "k1", 35, pl) : pl \in {<<A, B, C>>, <<A, C>>}}

NextSkip ==
  \/ PollOk({}, SkipConfigs)
  \/ FeederExit(ExitCodes)
  \/ MasterExit
  \/ Skip({"next", "previous"})
  \/ TimerFire({})
  \/ FeederClose({})
  \/ OtherFeederClose({}, ExitCodes)
  \/ MasterClose

SpecSkip == Init /\ [][NextSkip]_vars

\* Faults: a Feeder can fail to spawn and the fetch of the config can fail
\* while [A, B, C] is streamed
FaultConfigs == {Cfg(TRUE, "k1", 35, <<A, B, C>>)}

NextFault ==
  \/ PollOk({"feederSpawn"}, FaultConfigs)
  \/ PollFail
  \/ FeederExit(ExitCodes)
  \/ MasterExit
  \/ TimerFire({"feederSpawn"})
  \/ FeederClose({"feederSpawn"})
  \/ OtherFeederClose({"feederSpawn"}, ExitCodes)
  \/ MasterClose

SpecFault == Init /\ [][NextFault]_vars

\* Critical changes: while [A, B] is streamed the dashboard changes the
\* stream key, the audio volume or the bitrate, or clears the key or the URL
Base == Cfg(TRUE, "k1", 35, <<A, B>>)

CritConfigs ==
  {Base, Cfg(TRUE, "k2", 35, <<A, B>>), Cfg(TRUE, "k1", 50, <<A, B>>),
   [Base EXCEPT !.bitrate = 4000],
   Cfg(TRUE, "", 35, <<A, B>>), [Base EXCEPT !.rtmp_url = ""]}

NextCrit ==
  \/ PollOk({}, CritConfigs)
  \/ FeederExit(NaturalCodes)
  \/ MasterExit
  \/ FeederClose({})
  \/ OtherFeederClose({}, NaturalCodes)
  \/ MasterClose
  \/ OtherMasterClose

SpecCrit == Init /\ [][NextCrit]_vars

\* Stop: the dashboard switches the stream of [A, B] on and off while the
\* operator sends skip requests, valid and invalid, and Feeders fail. The
\* Master ends only when it is stopped.
StopConfigs == {Cfg(a, "k1", 35, <<A, B>>) : a \in BOOLEAN}

Requests == {"next", "previous", "sideways"}

NextStop ==
  \/ PollOk({}, StopConfigs)
  \/ FeederExit(ExitCodes)
  \/ Skip(Requests)
  \/ TimerFire({})
  \/ FeederClose({})
  \/ OtherFeederClose({}, ExitCodes)
  \/ OtherMasterClose

SpecStop == Init /\ [][NextStop]_vars

\* Recovery: the store keeps returning the same active config and the poll
\* timer keeps firing (setInterval), while Feeders end and the Master crashes
NextLive ==
  \/ PollOk({}, {Base})
  \/ FeederExit(NaturalCodes)
  \/ MasterExit
  \/ FeederClose({})
  \/ OtherFeederClose({}, NaturalCodes)
  \/ MasterClose

SpecLive == Init /\ [][NextLive]_vars /\ WF_vars(PollOk({}, {Base}))

\* Resolver: playlists whose items name their file in different ways, some
\* in two ways at once, some in none, while files disappear from the disk
UrlTo(dir, name) == [present |-> TRUE, http |-> FALSE, malformed |-> FALSE, dir |-> dir, name |-> name]

\* filename a.mp4 and a url naming b.mp4
BothFU == [str |-> "", id |-> 1, filename |-> "a.mp4", url |-> UrlTo("videos", "b.mp4"), path |-> ""]
\* a url naming b.mp4 and a raw path
BothUP == [str |-> "", id |-> 2, filename |-> "", url |-> UrlTo("videos", "b.mp4"), path |-> "/mnt/d.mp4"]
\* a raw path only
OnlyPath == [str |-> "", id |-> 3, filename |-> "", url |-> NoUrl, path |-> "/mnt/d.mp4"]
\* an id and nothing that names a file
OnlyId == [str |-> "", id |-> 4, filename |-> "", url |-> NoUrl, path |-> ""]
\* an http url that does not parse, and a raw path
BadUrl == [str |-> "", id |-> 5, filename |-> "",
           url |-> [present |-> TRUE, http |-> TRUE, malformed |-> TRUE, dir |-> "", name |-> ""],
           path |-> "/mnt/d.mp4"]

ResolveFiles == AllFiles \cup {<<"RAW", "/mnt/d.mp4">>}

ResolvePlaylists ==
  {<<BothFU, OnlyId, BothUP>>, <<OnlyId, OnlyPath>>, <<BadUrl, BothFU>>, <<BothUP, C>>}

ResolveConfigs == {Cfg(TRUE, "k1", 35, pl) : pl \in ResolvePlaylists}

\* the files that may disappear
Deletable == {VideoPath("a.mp4"), VideoPath("b.mp4"), <<"RAW", "/mnt/d.mp4">>}

InitResolve ==
  /\ files = ResolveFiles
  /\ fetches = NoFetches
  /\ stateFile = <<>>
  /\ masterFfmpeg = <<>>
  /\ masterStdin = <<>>
  /\ currentFeederProcess = <<>>
  /\ isStreaming = FALSE
  /\ lastConfig = <<>>
  /\ currentPlaylist = <<>>
  /\ currentIndex = 0
  /\ skipToTarget = FALSE
  /\ others = NoOthers
  /\ timers = 0
  /\ phase = "up"
  /\ ev = [op |-> "init", env |-> FALSE]
  /\ run = NoRun

NextResolve ==
  \/ PollOk({}, ResolveConfigs)
  \/ DeleteFile(Deletable)
  \/ FeederExit(NaturalCodes)
  \/ TimerFire({})
  \/ FeederClose({})

SpecResolve == InitResolve /\ [][NextResolve]_vars

\* Continuity: one playlist with all files on disk is streamed; Feeders end
\* with code 0, with an error code, or by a signal nobody in the engine sent
\* (code null), and the operator skips. Every event the engine has a
\* listener for is eventually handled, every timer fires, the poll repeats.
AnyCodes == {<<0>>, <<1>>, <<>>}

NextStall ==
  \/ PollOk({}, {Base})
  \/ FeederExit(AnyCodes)
  \/ Skip({"next"})
  \/ TimerFire({})
  \/ FeederClose({})

SpecStall ==
  /\ Init /\ [][NextStall]_vars
  /\ WF_vars(PollOk({}, {Base}))
  /\ WF_vars(TimerFire({}))
  /\ WF_vars(FeederClose({}))

\* Empty playlist: the dashboard empties the playlist of a running stream
\* and fills it again. Every Feeder ends at some time, every 'close' is
\* handled, every timer fires.
EmptyConfigs == {Base, Cfg(TRUE, "k1", 35, <<>>)}

NextEmpty ==
  \/ PollOk({}, EmptyConfigs)
  \/ FeederExit(ExitCodes)
  \/ TimerFire({})
  \/ FeederClose({})

SpecEmpty ==
  /\ Init /\ [][NextEmpty]_vars
  /\ WF_vars(FeederExit(ExitCodes))
  /\ WF_vars(TimerFire({}))
  /\ WF_vars(FeederClose({}))

\* Checkpoint: [A, B, C] is streamed, Feeders end naturally and the Master
\* exits now and then, while writing the state file on a cue and reading it on
\* a start can each fail
NextCheckpoint ==
  \/ PollOk({"write", "read"}, FaultConfigs)
  \/ FeederExit(NaturalCodes)
  \/ MasterExit
  \/ FeederClose({"write"})
  \/ OtherFeederClose({"write"}, NaturalCodes)
  \/ MasterClose

SpecCheckpoint == Init /\ [][NextCheckpoint]_vars

\* Volume: the dashboard sets the overlay volume to any whole percent while
\* [A] is streamed; every change of it restarts the Master
FullVolume == 100

VolumeConfigs == {Cfg(TRUE, "k1", v, <<A>>) : v \in 0..FullVolume}

NextVolume ==
  \/ PollOk({}, VolumeConfigs)
  \/ OtherFeederClose({}, NaturalCodes)
  \/ OtherMasterClose

SpecVolume == Init /\ [][NextVolume]_vars

\* Order: the dashboard switches the stream on, off and on again while poll
\* cycles overlap: a cycle is started before the fetch of the one before it
\* has returned, and the answers arrive in any order
NextOrder ==
  \/ Save
  \/ FetchSend
  \/ FetchReturn
  \/ FeederExit(NaturalCodes)
  \/ FeederClose({})
  \/ OtherFeederClose({}, NaturalCodes)
  \/ OtherMasterClose

SpecOrder == Init /\ [][NextOrder]_vars

\* Append: the dashboard appends entries to a playlist in which the video A
\* occurs twice, while the playlist is streamed
AppendConfigs ==
  {Cfg(TRUE, "k1", 35, pl) : pl \in {<<A, B, A>>, <<A, B, A, C>>, <<A, B, A, C, B>>}}

NextAppend ==
  \/ PollOk({}, AppendConfigs)
  \/ FeederExit(NaturalCodes)
  \/ FeederClose({})

SpecAppend == Init /\ [][NextAppend]_vars

\* ------------------------------------------------------------------------
\* Properties
\* ------------------------------------------------------------------------

\* children of the given kind that this server process has spawned and that
\* have not exited yet, referenced by a handle or not
Alive(kind, h) ==
  LET D == {c \in BagToSet(others) : c.kind = kind /\ c.st = "running" /\ c.att}
  IN (IF h # <<>> /\ h[1].st = "running" THEN 1 ELSE 0)
     + BagCardinality([c \in D |-> others[c]])

\* the last step was a handler of the given kind (not an environment step)
Handled(e, op) == e.op = op /\ ~e.env

\* C1: in every reachable state at most one Master subprocess is alive (has
\* been spawned and has not exited yet)
C1_AtMostOneMasterAlive == Alive("master", masterFfmpeg) <= 1

\* C2: in every reachable state at most one Feeder subprocess is alive
C2_AtMostOneFeederAlive == Alive("feeder", currentFeederProcess) <= 1

\* C3: after n natural advances (the Feeder of the entry at currentIndex
\* exits with code 0, all files present, no skip pending) with nothing else
\* changing the engine in between, the Feeder just spawned plays position
\* (start + n) mod N of the playlist of length N, and after N of them
\* currentIndex is back at its starting value
C3_NaturalAdvanceWraps ==
  (run.n > 0 \/ run.full) =>
    /\ Len(currentPlaylist) >= 1
    /\ currentIndex = (run.start + run.n) % Len(currentPlaylist)
    /\ (run.full /\ run.n = 0 => currentIndex = run.start)
    /\ (Handled(ev, "feederClose") /\ ev.natural /\ ev.inPlace =>
          /\ ev.spawn = <<currentIndex>>
          /\ currentFeederProcess[1].video = At(currentPlaylist, currentIndex))

\* a full lap over the three-entry playlist has been played, and the
\* Feeder for the starting position has just been spawned again
C3_Witness ==
  /\ Handled(ev, "feederClose") /\ ev.natural /\ ev.inPlace
  /\ run.full /\ run.n = 0
  /\ Len(currentPlaylist) = 3
  /\ Live(currentFeederProcess)

\* the playlist-change step of a poll cycle, taken while the entry old is
\* the one currentIndex points at
Reloads(old) ==
  /\ Handled(ev', "poll") /\ ev'.branch = "reload"
  /\ At(currentPlaylist, currentIndex) = old

HasId(playlist, id) == \E k \in 1..Len(playlist) : playlist[k].id = id

\* C4: a poll cycle that adopts a new playlist still containing the entry
\* currentIndex points at (same id) leaves currentIndex pointing at that
\* same entry and touches no child process
C4_ReloadKeepsEntry ==
  [][\A old \in {A, B, C} :
       (Reloads(<<old>>) /\ HasId(currentPlaylist', old.id)) =>
         /\ At(currentPlaylist', currentIndex') # <<>>
         /\ At(currentPlaylist', currentIndex')[1].id = old.id
         /\ currentFeederProcess' = currentFeederProcess
         /\ masterFfmpeg' = masterFfmpeg
         /\ others' = others
         /\ timers' = timers
         /\ isStreaming' = isStreaming]_vars

\* a playlist change has just moved the index of the entry that a running
\* Feeder is playing
C4_Witness ==
  /\ Handled(ev, "poll") /\ ev.branch = "reload"
  /\ Live(currentFeederProcess)
  /\ currentFeederProcess[1].video = At(currentPlaylist, currentIndex)
  /\ currentFeederProcess[1].idx # currentIndex

\* the scenario of C5: B is playing at index 1 of [A, B, C] and a poll
\* cycle adopts [A, C]
RemovesB ==
  /\ Reloads(<<B>>)
  /\ currentPlaylist = <<A, B, C>> /\ currentIndex = 1
  /\ Live(currentFeederProcess) /\ currentFeederProcess[1].video = <<B>>
  /\ currentPlaylist' = <<A, C>>

\* the natural advance that follows the scenario of C5: the Feeder of B,
\* spawned for index 1, exits with code 0 while [A, C] is the playlist
AdvancesPastB ==
  /\ Handled(ev', "feederClose") /\ ev'.natural
  /\ currentPlaylist = <<A, C>> /\ currentIndex = 1
  /\ currentFeederProcess[1].video = <<B>>

\* C5 as the spec states it: removing the playing entry B from [A, B, C]
\* sets currentIndex to 0, and the next natural advance plays C
C5_AsStated ==
  [][/\ RemovesB => currentIndex' = 0
     /\ AdvancesPastB => currentFeederProcess'[1].video = <<C>>]_vars

\* C5 as the code has it: removing the playing entry B from [A, B, C]
\* leaves currentIndex at 1 (it is within the new length), and the next
\* natural advance wraps to index 0 and plays A
C5_RemovedEntryKeepsIndex ==
  [][/\ RemovesB => currentIndex' = 1
     /\ AdvancesPastB =>
          /\ currentIndex' = 0
          /\ currentFeederProcess'[1].video = <<A>>]_vars

\* B was removed while it plays: its Feeder, spawned for index 1, is still
\* running and the playlist is now [A, C]
C5_Witness ==
  /\ Handled(ev, "poll") /\ ev.branch = "reload"
  /\ currentPlaylist = <<A, C>> /\ currentIndex = 1
  /\ Live(currentFeederProcess)
  /\ currentFeederProcess[1].video = <<B>> /\ currentFeederProcess[1].idx = 1

\* the entry currentIndex points at, if any, is not in the playlist
Gone(old, playlist) ==
  old = <<>> \/ \A k \in 1..Len(playlist) : ~SameVideo(playlist[k], old[1])

\* C6: after a poll cycle has replaced a non-empty playlist by a non-empty
\* one that no longer contains the entry that was playing, whatever the
\* index was before, 0 <= currentIndex < length of the new playlist
C6_ReloadClampsIndex ==
  [][(/\ Handled(ev', "poll") /\ ev'.branch = "reload"
      /\ Len(currentPlaylist) > 0 /\ Len(currentPlaylist') > 0
      /\ Gone(At(currentPlaylist, currentIndex), currentPlaylist')) =>
       (0 <= currentIndex' /\ currentIndex' < Len(currentPlaylist'))]_vars

\* C7: when the 'close' of the failed Feeder for position i (non-zero,
\* non-null code, which a failed spawn also reports) has been handled with
\* no skip pending, exactly one advance has been applied: currentIndex is
\* i + 1 and exactly one retry timer is pending
C7_FailureAdvancesOnce ==
  [][(/\ Handled(ev', "feederClose") /\ ev'.current
      /\ currentFeederProcess # <<>> /\ currentFeederProcess[1].st = "exited"
      /\ currentFeederProcess[1].code \notin {<<>>, <<0>>}
      /\ isStreaming /\ ~skipToTarget) =>
       (/\ currentIndex' = currentFeederProcess[1].idx + 1
        /\ timers' = 1)]_vars

\* where the skip recorded in a 'close' history record should land
SkipLandsAt(k) ==
  IF k.dir = "next" THEN (k.from + 1) % k.n ELSE (k.from - 1 + k.n) % k.n

\* a 'close' of the current Feeder handled right after an accepted skip
\* that was made while position from of a non-empty playlist was playing
ClosedAfterSkip ==
  /\ Handled(ev, "feederClose") /\ ev.current
  /\ ev.skip # <<>> /\ ev.skip[1].playing /\ ev.skip[1].n >= 1

\* C8: the 'close' of the Feeder killed by a manual skip made while position
\* i of L was playing spawns the Feeder for (i+1) mod L on 'next' and for
\* (i-1+L) mod L on 'previous', and clears the skip-pending flag
C8_SkipPlaysTarget ==
  ClosedAfterSkip =>
    /\ ev.spawn = <<SkipLandsAt(ev.skip[1])>>
    /\ currentIndex = SkipLandsAt(ev.skip[1])
    /\ currentFeederProcess[1].video = At(currentPlaylist, currentIndex)
    /\ ~skipToTarget

\* 'previous' from position 0 of three has wrapped to position 2
C8_Witness ==
  /\ ClosedAfterSkip
  /\ ev.skip[1].dir = "previous" /\ ev.skip[1].from = 0 /\ ev.skip[1].n = 3
  /\ ev.spawn = <<2>>

\* a poll cycle starts the engine and spawns a Feeder
Starts == Handled(ev', "poll") /\ ev'.branch = "start" /\ ev'.spawn # <<>>

\* the entry the first Feeder of a start plays
FirstPlayed == currentFeederProcess'[1].video[1]

\* C9 as the spec states it: a start with a checkpoint X that the playlist
\* contains plays the entry after X, never X itself; otherwise position 0
C9_AsStated ==
  [][Starts =>
       IF stateFile # <<>> /\ HasId(currentPlaylist', stateFile[1])
       THEN /\ ev'.spawn = <<resumeIndex(currentPlaylist', stateFile)>>
            /\ FirstPlayed.id # stateFile[1]
       ELSE ev'.spawn = <<0>>]_vars

\* C9 as the code has it: a start with a checkpoint X that the playlist
\* contains at 0-based position k plays position (k + 1) mod L, which is X
\* itself exactly when L = 1; otherwise it plays position 0
C9_ResumeAfterCheckpoint ==
  [][Starts =>
       LET L == Len(currentPlaylist')
       IN IF stateFile # <<>> /\ HasId(currentPlaylist', stateFile[1])
          THEN \E k \in 0..(L - 1) :
                 /\ currentPlaylist'[k + 1].id = stateFile[1]
                 /\ ev'.spawn = <<(k + 1) % L>>
                 /\ FirstPlayed = currentPlaylist'[((k + 1) % L) + 1]
                 /\ (FirstPlayed.id = stateFile[1] <=> L = 1)
          ELSE ev'.spawn = <<0>>]_vars

\* the engine has just restarted after a critical change and resumed at
\* position 1, the entry after the checkpoint
C9_Witness ==
  /\ Handled(ev, "poll") /\ ev.branch = "start"
  /\ ev.prev = <<"poll", "critical">>
  /\ ev.spawn = <<1>>
  /\ Live(currentFeederProcess)

\* C10: a poll cycle whose fetch fails changes nothing: isStreaming, the
\* Master, the Feeder, the playlist and every other variable stay as they are
C10_FetchFailureChangesNothing ==
  [][(Handled(ev', "poll") /\ ~ev'.fetched) =>
       UNCHANGED <<engineVars, envVars, phase>>]_vars

\* the fetch has failed in MaxStreak poll cycles in a row during a stream:
\* the stream is on, Master and Feeder are running
C10_Witness ==
  /\ Handled(ev, "poll") /\ ~ev.fetched /\ ev.streak = MaxStreak
  /\ isStreaming
  /\ masterFfmpeg # <<>> /\ masterFfmpeg[1].st = "running" /\ ~masterFfmpeg[1].sig
  /\ Live(currentFeederProcess)

\* C11: a poll cycle that, while streaming, observes a config whose critical
\* fields (stream key, RTMP URL, audio overlay settings, bitrate) differ from
\* what the running Master was started with stops the Feeder and the Master
C11_CriticalChangeStops ==
  (Handled(ev, "poll") /\ ev.seen = "critical") =>
    /\ ~isStreaming
    /\ masterFfmpeg = <<>>
    /\ currentFeederProcess = <<>>

\* C12: a poll cycle that, while streaming, observes a config differing from
\* the last adopted one only in its playlist is a hot reload: it kills and
\* spawns nothing, isStreaming and both process handles are unchanged, and
\* only the playlist snapshot, currentIndex and lastConfig may change
C12_HotReloadKeepsProcesses ==
  [][(Handled(ev', "poll") /\ ev'.seen = "playlist") =>
       /\ ev'.branch = "reload"
       /\ ev'.kills = <<>>
       /\ ev'.spawn = <<>>
       /\ ~ev'.master
       /\ isStreaming /\ isStreaming'
       /\ UNCHANGED <<masterFfmpeg, masterStdin, currentFeederProcess,
                      others, timers, skipToTarget, stateFile, files, phase>>
       /\ lastConfig' # lastConfig
       /\ currentPlaylist' = cleanPlaylist(lastConfig'[1].playlist, files).validPlaylist]_vars

C12_Witness ==
  /\ Handled(ev, "poll")
  /\ ev.seen = "playlist"
  /\ Live(currentFeederProcess)
  /\ Live(masterFfmpeg)
  /\ currentPlaylist # <<>>

\* the engine is stopped: not streaming, no Feeder or Master handle held
Idle == ~isStreaming /\ masterFfmpeg = <<>> /\ currentFeederProcess = <<>>

\* kills a stop makes with these handles: the Feeder first, the Master second
StopOrder(feeder, master) ==
  (IF feeder # <<>> THEN <<"feeder">> ELSE <<>>) \o
  (IF master # <<>> THEN <<"master">> ELSE <<>>)

\* C13: a poll cycle that observes isActive=false while streaming kills the
\* Feeder first and the Master second and ends with isStreaming=false and no
\* Feeder or Master handle; from then on no timer, exit handler or request
\* spawns a Feeder or a Master until a poll cycle observes isActive=true
C13_StopStaysStopped ==
  [][/\ (Handled(ev', "poll") /\ ev'.seen = "off") =>
          /\ ev'.branch = "stop"
          /\ ev'.kills = StopOrder(currentFeederProcess, masterFfmpeg)
          /\ ev'.spawn = <<>> /\ ~ev'.master
          /\ Idle'
     /\ (Idle /\ ~(Handled(ev', "poll") /\ ev'.seen = "on")) =>
          /\ Idle'
          /\ CountOf(others', "feeder") <= CountOf(others, "feeder")
          /\ CountOf(others', "master") <= CountOf(others, "master")]_vars

\* a stop that killed both processes while a backoff timer was pending
C13_Witness ==
  /\ Handled(ev, "poll")
  /\ ev.seen = "off"
  /\ ev.kills = <<"feeder", "master">>
  /\ timers > 0
  /\ Idle

\* the exit of the Master the engine holds has just been handled
MasterDown == Handled(ev, "masterClose") /\ ev.current

\* a Master is running and the engine reports streaming
Streaming == isStreaming /\ Live(masterFfmpeg)

\* C14: when the Master exits while streaming, its exit handler kills the
\* live Feeder the engine holds and clears isStreaming and both handles;
\* while the store keeps returning the valid active config and the poll timer
\* keeps firing, a later poll cycle starts a new Master and the engine
\* streams again
C14_MasterExitRecovers ==
  /\ [](MasterDown => Idle /\ (ev.feeder => ev.kills = <<"feeder">>))
  /\ (MasterDown ~> (Streaming /\ Handled(ev, "poll") /\ ev.branch = "start"))

\* a poll cycle right after a handled Master exit has started a new Master
C14_Witness ==
  /\ Handled(ev, "poll")
  /\ ev.branch = "start"
  /\ ev.prev = <<"masterClose", "">>
  /\ ev.master
  /\ Streaming
  /\ \E c \in BagToSet(others) : c.kind = "feeder" /\ c.sig

\* the config names no RTMP URL or no stream key
Absent(config) == config.rtmp_url = "" \/ config.stream_key = ""

\* C15: a poll cycle that finds the engine not streaming and the config
\* active always attempts the start; when the RTMP URL or the stream key of
\* that config is absent, the attempt creates no Master and no Feeder and
\* leaves isStreaming false, so the next poll cycle attempts it again
C15_MissingEndpointNoSpawn ==
  [][/\ (Handled(ev', "poll") /\ ev'.seen = "on") =>
          ev'.branch = "start" /\ lastConfig' # <<>>
     /\ (Handled(ev', "poll") /\ ev'.branch = "start" /\ Absent(lastConfig'[1])) =>
          /\ ~isStreaming'
          /\ masterFfmpeg' = <<>> /\ masterStdin' = <<>>
          /\ currentFeederProcess' = <<>>
          /\ ev'.spawn = <<>> /\ ~ev'.master
          /\ UNCHANGED <<others, timers>>]_vars

\* two poll cycles in a row attempted the start with the key or URL absent
C15_Witness ==
  /\ Handled(ev, "poll")
  /\ ev.branch = "start"
  /\ ev.prev = <<"poll", "start">>
  /\ Absent(lastConfig[1])
  /\ ~isStreaming

\* C16: a poll cycle that finds the engine not streaming and the config active
\* with a playlist that is empty after validation spawns no Master and leaves
\* isStreaming false
C16_EmptyPlaylistBlocksStart ==
  (Handled(ev, "poll") /\ ev.seen = "on" /\ currentPlaylist = <<>>) =>
    /\ ~ev.master
    /\ masterFfmpeg = <<>>
    /\ ~isStreaming

C18_StatusReportsFlag ==
  nowPlaying(Engine).isStreaming = isStreaming

\* C19: in every state between handler executions in which the playlist
\* snapshot is non-empty, 0 <= currentIndex < length of the snapshot
C19_IndexInRange ==
  Len(currentPlaylist) > 0 =>
    0 <= currentIndex /\ currentIndex < Len(currentPlaylist)

\* C20: the close handler of a Feeder that was killed deliberately (by
\* stopStream, by the Master close handler or by a skip) does not increment
\* currentIndex, and unless a skip is pending it spawns no Feeder and arms no
\* timer that would spawn one
C20_KilledFeederNoAdvance ==
  [][(Handled(ev', "feederClose") /\ ev'.sig) =>
       IF skipToTarget
       THEN currentIndex' = sanityCheck(currentIndex, Len(currentPlaylist))
            \/ currentIndex' = currentIndex
       ELSE /\ currentIndex' = currentIndex
            /\ ev'.spawn = <<>>
            /\ timers' = timers]_vars

\* the unreferenced Masters are the same before and after the step
SameMasters ==
  \A c \in BagToSet(others) \cup BagToSet(others') :
    c.kind = "master" => CopiesIn(c, others') = CopiesIn(c, others)

\* C21: a Feeder failure stays with its entry: the handler of a Feeder exit,
\* whatever the exit code, and the retry it schedules, a failed Feeder spawn
\* included, send no signal to a Master and leave the Master handle and
\* isStreaming unchanged; a start whose first Feeder fails to spawn still
\* leaves the Master running
C21_FeederFailureKeepsMaster ==
  [][/\ (Handled(ev', "feederClose") \/ Handled(ev', "timer")) =>
          /\ UNCHANGED <<masterFfmpeg, masterStdin, isStreaming>>
          /\ SameMasters
     /\ (Handled(ev', "poll") /\ ev'.master) =>
          isStreaming' /\ Live(masterFfmpeg')]_vars

\* the 'close' of a Feeder that failed to spawn has been handled and the
\* Master is still running
C21_Witness ==
  /\ Handled(ev, "feederClose")
  /\ ev.code = <<SpawnErrCode>>
  /\ isStreaming
  /\ Live(masterFfmpeg)

\* the path the claimed precedence gives an object item: filename, then
\* url, then raw path, and none for an item that names no file
Precedence(item) ==
  IF item.filename # "" THEN VideoPath(item.filename)
  ELSE IF item.url.present /\ item.url.dir = "videos" /\ ~item.url.http
    THEN VideoPath(item.url.name)
  ELSE IF ~item.url.present /\ item.path # "" THEN <<"RAW", item.path>>
  ELSE NoPath

\* the items a poll cycle has been given and the item being played
Resolved ==
  (IF lastConfig = <<>> THEN {} ELSE {lastConfig[1].playlist[k] : k \in 1..Len(lastConfig[1].playlist)})
  \cup {currentPlaylist[k] : k \in 1..Len(currentPlaylist)}

\* C22: the resolver follows the precedence filename > url > raw path: an
\* item with a filename and a url naming different files resolves to the
\* file of the filename, which is the file its Feeder is spawned with; an
\* item with only an id resolves to no path, is dropped by validation and is
\* never played
C22_ResolverPrecedence ==
  /\ \A item \in Resolved \cap {BothFU, BothUP, OnlyPath, OnlyId} :
       getVideoPath(item) = Precedence(item)
  /\ \A k \in 1..Len(currentPlaylist) : currentPlaylist[k] # OnlyId
  /\ (currentFeederProcess # <<>> /\ currentFeederProcess[1].st # "closed") =>
       LET proc == currentFeederProcess[1]
       IN /\ proc.video[1] # OnlyId
          /\ proc.args = <<Precedence(proc.video[1])>>

\* the item with filename and url is being played from the file of its
\* filename, out of a fetched playlist that also held the id-only item
C22_Witness ==
  /\ Live(currentFeederProcess)
  /\ currentFeederProcess[1].video = <<BothFU>>
  /\ currentFeederProcess[1].args = <<VideoPath("a.mp4")>>
  /\ lastConfig # <<>>
  /\ \E k \in 1..Len(lastConfig[1].playlist) : lastConfig[1].playlist[k] = OnlyId

\* a handler has just spawned a Feeder
FeederSpawned == ~ev.env /\ ev.op \in {"poll", "timer", "feederClose"} /\ ev.spawn # <<>>

\* C23: while the stream is on and the playlist has an entry whose file
\* exists, every handled Feeder exit, whatever its code or signal and whatever
\* skips were requested, is followed by the spawn of a Feeder
C23_FeederExitLeadsToSpawn ==
  (Handled(ev, "feederClose") /\ isStreaming /\ Live(masterFfmpeg)
     /\ \E k \in 1..Len(currentPlaylist) : FileOk(currentPlaylist[k], files))
  ~> FeederSpawned

\* a poll cycle has just replaced an empty playlist snapshot of a running
\* stream by a non-empty one
Refilled ==
  /\ Handled(ev, "poll") /\ ev.branch = "reload"
  /\ isStreaming /\ Live(masterFfmpeg)
  /\ currentPlaylist # <<>>
  /\ currentFeederProcess # <<>> => currentFeederProcess[1].st = "closed"

\* C24: a playlist that becomes empty while streaming does not stop the
\* stream: the poll cycle that adopts it leaves the Master and isStreaming
\* alone; with the playlist empty the Feeder loop spawns nothing and leaves
\* exactly one timer to check again; and once a poll cycle has adopted a
\* non-empty playlist, a Feeder is spawned, by the same Master, unless the
\* playlist is emptied again first
C24_EmptyPlaylistWaits ==
  /\ [][(Handled(ev', "poll") /\ ev'.branch = "reload" /\ currentPlaylist' = <<>>) =>
          (isStreaming' /\ UNCHANGED <<masterFfmpeg, masterStdin, timers>>)]_vars
  /\ [][((Handled(ev', "timer") \/ Handled(ev', "feederClose"))
          /\ isStreaming /\ currentPlaylist = <<>>) =>
          (/\ ev'.spawn = <<>>
           /\ timers' = 1
           /\ isStreaming' /\ UNCHANGED <<masterFfmpeg, masterStdin>>)]_vars
  /\ (Refilled ~> ((FeederSpawned /\ isStreaming /\ Live(masterFfmpeg)) \/ currentPlaylist = <<>>))

\* the first Feeder after a refill has been spawned by the waiting timer: the
\* Master was never restarted and the playlist had been empty
C24_Witness ==
  /\ Handled(ev, "timer")
  /\ ev.spawn # <<>>
  /\ Live(currentFeederProcess)
  /\ Live(masterFfmpeg)
  /\ lastConfig = <<Base>>
  /\ stateFile = <<A.id>>

\* C25: currentIndex is advanced automatically only in response to a Feeder
\* exit: a step that increases currentIndex is the 'close' handler of a
\* Feeder, a manual skip, or a poll cycle (start position, pointer
\* correction); a timer callback increases it at most when a Feeder of this
\* stream has exited before it
C25_AdvanceOnlyOnFeederExit ==
  [][currentIndex' > currentIndex =>
       \/ Handled(ev', "feederClose")
       \/ Handled(ev', "skip")
       \/ Handled(ev', "poll")
       \/ Handled(ev', "timer") /\ currentFeederProcess # <<>>]_vars

\* C26: every Feeder spawn uses an in-range position: whenever a handler
\* spawns a Feeder through playNextVideo, the position it read is within the
\* playlist snapshot, the Feeder plays the entry at that position, and
\* currentIndex is that position; an index a timer callback finds at or
\* beyond the length of the snapshot (left over from a longer playlist or
\* from an advance at the last position) is reset to 0 before it is used
C26_SpawnUsesInRangeIndex ==
  [][FeederSpawned' =>
       LET i == ev'.spawn[1]
       IN /\ 0 <= i /\ i < Len(currentPlaylist')
          /\ currentFeederProcess' # <<>>
          /\ currentFeederProcess'[1].idx = i
          /\ currentFeederProcess'[1].video = At(currentPlaylist', i)
          /\ currentIndex' = i
          /\ (ev'.op = "timer" /\ currentIndex >= Len(currentPlaylist)) => i = 0]_vars

C26_Witness ==
  /\ Handled(ev, "timer") /\ ev.spawn = <<0>>
  /\ currentPlaylist = <<A, C>> /\ currentIndex = 0
  /\ Live(currentFeederProcess) /\ currentFeederProcess[1].video = <<A>>

\* the Masters that run unsignalled, held by the handle h or unreferenced
RunningMasters(h, bag) ==
  LET D == {c \in BagToSet(bag) : c.kind = "master" /\ c.st = "running" /\ ~c.sig}
  IN BagCardinality([c \in D |-> bag[c]]) + (IF Live(h) THEN 1 ELSE 0)

\* this step has spawned no Master
NoFreshMaster ==
  RunningMasters(masterFfmpeg', others') <= RunningMasters(masterFfmpeg, others)

\* C27: the Master is never spawned again by its own exit handler or by the
\* poll cycle that stopped it: the close handler of a Master and a poll cycle
\* that stops the stream (critical change, switch-off) leave no Master
\* behind, and a Master is spawned only by a poll cycle that takes the start
\* branch, having found the engine not streaming
C27_RestartOnlyByLaterPoll ==
  [][/\ Handled(ev', "masterClose") =>
          masterFfmpeg' = <<>> /\ ~isStreaming' /\ NoFreshMaster
     /\ (Handled(ev', "poll") /\ ev'.branch \in {"critical", "stop"}) =>
          ~ev'.master /\ masterFfmpeg' = <<>> /\ ~isStreaming' /\ NoFreshMaster
     /\ (Handled(ev', "poll") /\ ev'.master) =>
          ev'.branch = "start" /\ ~isStreaming /\ ~Live(masterFfmpeg)
     /\ (~ev'.env /\ ev'.op # "poll") =>
          NoFreshMaster /\ (Live(masterFfmpeg') => masterFfmpeg' = masterFfmpeg)]_vars

\* the poll cycle after a critical-change stop has started a new Master
C27_Witness ==
  /\ Handled(ev, "poll")
  /\ ev.branch = "start"
  /\ ev.prev = <<"poll", "critical">>
  /\ ev.master
  /\ Streaming
  /\ lastConfig = <<Cfg(TRUE, "k2", 35, <<A, B>>)>>

\* C27 as stated: at least one poll interval separates a stop from the
\* following start, so the poll cycle that comes next after the close handler
\* of the Master, less than one poll interval after the exit, starts no Master
C27_AsStated ==
  [][(Handled(ev, "masterClose") /\ ev.current /\ Handled(ev', "poll")) =>
       ~ev'.master]_vars

\* C28: no subprocess or I/O error reaches a process-ending fault: a failed
\* spawn and a playlist of which no entry's file exists any more are caught
\* and turned into a skip, a retry or a reset to not-streaming, so the server
\* process never ends with an unhandled error
C28_NoProcessEndingFault == phase # "crashed"

\* the entries of a playlist whose resolved file is on the disk, in the
\* order of the playlist
Kept(playlist, disk) == SelectSeq(playlist, LAMBDA item : FileOk(item, disk))

\* C29: cleanPlaylist returns exactly the entries of its input whose
\* resolved file exists at validation time, in their original relative
\* order, with removedCount = input length - output length and hasChanges
\* set when an entry was removed; the poll cycle that adopts a changed
\* playlist takes that result as its snapshot and keeps the fetched
\* playlist itself unmodified
C29_CleanPlaylistKeepsExisting ==
  /\ [](\A pl \in ResolvePlaylists :
          LET r == cleanPlaylist(pl, files)
          IN /\ r.validPlaylist = Kept(pl, files)
             /\ r.removedCount = Len(pl) - Len(r.validPlaylist)
             /\ r.hasChanges = (r.removedCount > 0))
  /\ [][(Handled(ev', "poll") /\ ev'.branch = "reload") =>
          /\ lastConfig'[1].playlist \in ResolvePlaylists
          /\ currentPlaylist' = Kept(lastConfig'[1].playlist, files)]_vars

\* a poll cycle has adopted [BothFU, OnlyId, BothUP] after a.mp4 was
\* deleted: the snapshot is [BothUP] and the fetched playlist is untouched
C29_Witness ==
  /\ Handled(ev, "poll") /\ ev.branch = "reload"
  /\ lastConfig = <<Cfg(TRUE, "k1", 35, <<BothFU, OnlyId, BothUP>>)>>
  /\ VideoPath("a.mp4") \notin files
  /\ currentPlaylist = <<BothUP>>

\* C30: the resume checkpoint is written on every cue and is best-effort: a
\* handler that spawns a Feeder leaves the state file naming the entry it
\* spawned, or as it was when the write failed; whether or not the write
\* fails, a start and the close handler of a naturally ended Feeder spawn
\* the Feeder of the entry and leave the engine streaming with its Master;
\* a start begins at the position after the recorded entry, or at position
\* 0 when the checkpoint cannot be read
C30_CheckpointBestEffort ==
  [][/\ FeederSpawned' =>
          stateFile' \in {stateFile, <<currentPlaylist'[ev'.spawn[1] + 1].id>>}
     /\ (Handled(ev', "poll") /\ ev'.master) =>
          /\ ev'.spawn \in {<<0>>, <<resumeIndex(currentPlaylist', stateFile)>>}
          /\ Live(currentFeederProcess') /\ isStreaming' /\ phase' = "up"
     /\ (Handled(ev', "feederClose") /\ ev'.natural) =>
          /\ ev'.spawn # <<>>
          /\ Live(currentFeederProcess') /\ isStreaming' /\ phase' = "up"
          /\ UNCHANGED <<masterFfmpeg, masterStdin>>]_vars

\* a start whose read and write of the state file both failed: the file
\* names B, the start would resume at C, and A is playing
C30_Witness ==
  /\ Handled(ev, "poll") /\ ev.branch = "start" /\ ev.spawn = <<0>>
  /\ currentPlaylist = <<A, B, C>>
  /\ stateFile = <<B.id>>
  /\ Live(currentFeederProcess) /\ currentFeederProcess[1].video = <<A>>
  /\ isStreaming

\* the stream keys a config can carry
Keys == {"k1", "k2"}

\* C31: the stream key is never logged in full: what a poll cycle prints when
\* it starts the Master is what it would have printed for the same config
\* with any other stream key
C31_KeyNotLogged ==
  (Handled(ev, "poll") /\ ev.master) =>
    \A k \in Keys : ev.log = startLog([lastConfig[1] EXCEPT !.stream_key = k], files)

\* C32: with the audio overlay enabled, the mix volume the Master is started
\* with equals the configured audio_volume / 100, for every whole percent
\* from 0 to 100, 0 included
C32_MixVolumeIsConfigured ==
  (Handled(ev, "poll") /\ ev.master /\ lastConfig[1].audio_overlay_enabled) =>
    LET vol == masterFfmpeg[1].args[1].mix[2]
    IN vol.whole * 100 + vol.frac = lastConfig[1].audio_volume

\* every unreferenced Master is one the engine has stopped
OldMastersStopped == \A c \in BagToSet(others) : c.kind = "master" => c.sig

\* C33: the exit of a Master that is no longer the engine's current one (it
\* was stopped and a new Master has been started since) does not disturb the
\* new session: its close handler leaves isStreaming, the Master handle, the
\* Master's input pipe and the current Feeder as they are
C33_StaleMasterExitIgnored ==
  [][(/\ Handled(ev', "masterClose") /\ ~ev'.current
      /\ OldMastersStopped /\ isStreaming /\ Live(masterFfmpeg)) =>
       UNCHANGED <<isStreaming, masterFfmpeg, masterStdin, currentFeederProcess>>]_vars

\* a Feeder whose 'close' event is still to be handled: the one the handle
\* refers to, or an unreferenced one the engine still listens to
FeederClosePending ==
  \/ currentFeederProcess # <<>> /\ currentFeederProcess[1].st # "closed"
  \/ \E c \in BagToSet(others) : c.kind = "feeder" /\ c.att

\* C34: the skip-pending flag is set only while the exit event of a Feeder
\* is outstanding, so that no Feeder spawned later has its natural end taken
\* for a skip; this holds for skips during the failure backoff, during an
\* empty-playlist wait and before a stop as well
C34_SkipFlagOnlyWhileExitPending == skipToTarget => FeederClosePending

\* C35: poll results are applied in the order they were fetched: a poll
\* cycle never applies a version of the row older than the version an
\* earlier continuation has applied already
C35_FetchesAppliedInOrder ==
  [][Handled(ev', "poll") => fetches'.applied >= fetches.applied]_vars

\* C36: playNextVideo always terminates in a bounded number of steps, also
\* when the playlist is not empty and none of its files exists any more: a
\* timer callback or a Feeder close handler that calls it runs to its end,
\* and a timer callback that finds the engine streaming with a playlist has
\* then spawned a Feeder or scheduled a retry
C36_PlayNextVideoTerminates ==
  [][/\ (Handled(ev', "timer") \/ Handled(ev', "feederClose")) => phase' = "up"
     /\ (/\ Handled(ev', "timer")
         /\ isStreaming /\ masterStdin # <<>> /\ currentPlaylist # <<>>) =>
          ev'.spawn # <<>> \/ timers' >= timers]_vars

\* C37: in every reachable state the Master-related variables agree:
\* isStreaming is true exactly when the Master handle is set, which is
\* exactly when the reference to the Master's input pipe is set, and a
\* Feeder handle is held only while the Master handle is set
C37_MasterVariablesAgree ==
  /\ isStreaming <=> masterFfmpeg # <<>>
  /\ masterFfmpeg # <<>> <=> masterStdin # <<>>
  /\ currentFeederProcess # <<>> => masterFfmpeg # <<>>

\* the close handler of the Master has run while a Feeder was held and a
\* retry timer was pending: all four variables are cleared together
C37_Witness ==
  /\ Handled(ev, "masterClose") /\ ev.current /\ ev.kills = <<"feeder">>
  /\ timers > 0
  /\ ~isStreaming /\ masterFfmpeg = <<>> /\ masterStdin = <<>>
  /\ currentFeederProcess = <<>>

\* the playlist new is the playlist old with entries added at its end
Appended(old, new) ==
  Len(new) > Len(old) /\ SubSeq(new, 1, Len(old)) = old

\* C38: pointer correction preserves what plays next when the playlist is
\* only appended to: a poll cycle that adopts the old playlist with entries
\* added at its end leaves currentIndex unchanged, also when the playlist
\* holds the same video at more than one position
C38_AppendKeepsIndex ==
  [][(/\ Handled(ev', "poll") /\ ev'.branch = "reload"
      /\ Appended(currentPlaylist, currentPlaylist')
      /\ currentIndex < Len(currentPlaylist)) =>
       currentIndex' = currentIndex]_vars

====
